---- MODULE Spec2Model ----
(***************************************************************************)
(* State-machine model of the chat client in                               *)
(* react-flask-app/frontend/src/App.js: the React state of App, the two    *)
(* asynchronous functions fetchHistory and handleSend (one step per        *)
(* synchronous segment between awaits), the event handlers reachable from  *)
(* the rendered elements, the browser's localStorage entry and its speech  *)
(* recognition object.  A handler's state updates are committed together   *)
(* and the component is re-rendered before the next event is delivered, so *)
(* what is rendered (and which handlers can be invoked) is a function of   *)
(* the current state.                                                      *)
(***************************************************************************)
EXTENDS Integers, Sequences, FiniteSets, TLC

\* ---------------------------------------------------------------- bounds
MaxLog == 5            \* longest conversation log explored

\* ------------------------------------------------------- values and inputs
\* A JavaScript string is the sequence of its pieces (single characters for
\* typed text, whole phrases for fixed texts), so that trimming and
\* concatenation are computed; '' is <<>>.  null and undefined are one-piece
\* sequences no string of the model is equal to.
None == <<"null">>
Undefined == <<"undefined">>

\* texts typed into the textarea
Inputs == {<<>>, <<" ">>, <<" ", "a", " ">>}
\* transcripts delivered by the recognition engine
Transcripts == {<<" ", "a", " ">>}
\* File objects: <<name, media type before the slash, media type after it>>
ImageFiles == {<<"cat.png", "image", "png">>, <<"dog.jpg", "image", "jpeg">>}
OtherFiles == {<<"notes.txt", "text", "plain">>}
Files == ImageFiles \cup OtherFiles
Replies == {<<"hi">>}
ServerErrors == {<<>>, <<"quota exceeded">>}
\* line 65: the error codes of a recognition error event (event.error)
RecognitionErrors == {<<"no-speech">>, <<"aborted">>}
NetworkFailure == <<"Failed to fetch">>
JsonFailure == <<"Unexpected token">>
NotOkText == <<"Network response was not ok">>
HistoryNotOkText == <<"Failed to fetch history">>
SorryPrefix == <<"Sorry, something went wrong: ">>
GreetingText == <<"Hello! I am ThatBot. How can I help you?">>

\* JSON bodies are objects with any of the fields reply and error.
Field(data, k) == IF k \in DOMAIN data THEN data[k] ELSE Undefined
ReplyBody(r) == [k \in {"reply"} |-> r]
ErrorBody(e) == [k \in {"error"} |-> e]
\* section 6 of the specification: a 2xx body carries reply, another one error
OkBodies == {ReplyBody(r) : r \in Replies}
ErrorBodies == {ErrorBody(e) : e \in ServerErrors}
Falsy(v) == v = Undefined \/ v = None \/ v = <<>>
OrElse(v, d) == IF Falsy(v) THEN d ELSE v

\* String.prototype.trim on a sequence of characters.
Whitespace == {" "}
RECURSIVE TrimStart(_)
TrimStart(s) == IF s # <<>> /\ Head(s) \in Whitespace THEN TrimStart(Tail(s)) ELSE s
RECURSIVE TrimEnd(_)
TrimEnd(s) == IF s # <<>> /\ s[Len(s)] \in Whitespace
                THEN TrimEnd(SubSeq(s, 1, Len(s) - 1)) ELSE s
Trim(s) == TrimEnd(TrimStart(s))

\* ------------------------------------------------------------- messages
Greeting == [text |-> GreetingText, sender |-> "bot"]
UserMessage(textInput, preview) == [sender |-> "user", text |-> textInput, image |-> preview]
\* faulty variant: the reply is read from a field the body does not have
BotMessage_NoText(reply) == [sender |-> "bot", text |-> Undefined]
BotMessage(reply) == [sender |-> "bot", text |-> reply]
\* faulty variant: the error's message is left out
ErrorText_NoReason(message) == SorryPrefix
ErrorText(message) == SorryPrefix \o message
ErrorMessage(message) == [sender |-> "bot", text |-> ErrorText(message)]

HistoryEntries == <<UserMessage(<<"a">>, None), BotMessage(<<"hi">>)>>
Histories == {<<>>, HistoryEntries}

VARIABLES
  storage,        \* localStorage['chatSessionId'], None when absent
  storageWrites,  \* number of localStorage.setItem calls so far
  supported,      \* the browser has a SpeechRecognition constructor
  mounted,        \* the mount effects of the current page load have run
  messages, input, isLoading, isListening,
  selectedFile, filePreview, sessionId, appStatus,
  hist,           \* fetchHistory: [pc, ok, body], pc its position ("loaded" and
                  \* "failed" once it has returned), ok the response's ok flag,
                  \* body the history it parsed
  inflight,       \* suspended handleSend calls: set of [id, pc, ok, body]
  recog,          \* state of the recognition object
  fileInput,      \* the file held by the hidden file input, None when empty
  requests,       \* the HTTP requests this page has issued, oldest first:
                  \* [kind, sessionId]
  logged,         \* last argument of console.error, None when none
  lastBody,       \* last body parsed from a /chat response, None when none
  sendSnap,       \* the last send: the log and the flag at the moment it started,
                  \* the text it sent and how it ended
  notice          \* what the last handler showed where it changed nothing else:
                  \* "alert" (window.alert), "ignored" (handleSend returned at
                  \* line 103), "threw" (an exception left the handler),
                  \* "cleared" (the remove button took the preview away),
                  \* "replaced" (an image took the place of a pending one),
                  \* "reused" (the mount effect found a stored session id), "none"

react == <<messages, input, isLoading, isListening, selectedFile, filePreview,
           sessionId, appStatus>>
vars == <<storage, storageWrites, supported, mounted, react, hist,
          inflight, recog, fileInput, requests, logged, lastBody, sendSnap, notice>>

NoSnap == [log |-> <<>>, busy |-> FALSE, text |-> <<>>, outcome |-> "none"]
HistIdle == [pc |-> "none", ok |-> FALSE, body |-> None]

ChatRequests == SelectSeq(requests, LAMBDA r : r.kind = "chat")
HistoryRequests == SelectSeq(requests, LAMBDA r : r.kind = "history")

\* useState initial values, lines 16-25
FreshReact ==
  /\ messages = <<>>
  /\ input = <<>>
  /\ isLoading = FALSE
  /\ isListening = FALSE
  /\ selectedFile = None
  /\ filePreview = None
  /\ sessionId = None
  /\ appStatus = "loading"

Init ==
  /\ storage = None
  /\ storageWrites = 0
  /\ supported \in BOOLEAN
  /\ mounted = FALSE
  /\ FreshReact
  /\ hist = HistIdle
  /\ inflight = {}
  /\ recog = "idle"
  /\ fileInput = None
  /\ requests = <<>>
  /\ logged = None
  /\ lastBody = None
  /\ sendSnap = NoSnap
  /\ notice = "none"

\* ------------------------------------------------------ what is rendered
\* lines 146-164: the chat window exists only when appStatus is 'ready'
\* faulty variant: the chat window is rendered in every status
InputAreaRendered_Always == TRUE
InputAreaRendered == appStatus = "ready"
\* line 190-192: paperclip, microphone and textarea carry disabled={isLoading}
\* faulty variant: the controls are not disabled while a send is pending
ControlsDisabled_Never == FALSE
ControlsDisabled == isLoading
\* line 191: the microphone button exists only when recognition does
MicRendered == supported
\* line 193: disabled attribute of the send button
SendDisabled == isLoading \/ (Trim(input) = <<>> /\ selectedFile = None)
\* line 181: the preview and its remove button
PreviewRendered == ~Falsy(filePreview)

\* ------------------------------------------------ activation and bootstrap
\* line 33: `session_${Date.now()}_${random}`; the n-th id generated in this
\* browser differs from the ones generated before it
NewSessionId(n) == <<"session", n>>
\* lines 31-35: reuse the stored id, generate one only when none is stored
\* faulty variant: a new id on every activation
BootstrapSession_Regenerate(stored, fresh) == fresh
BootstrapSession(stored, fresh) == IF Falsy(stored) THEN fresh ELSE stored
\* line 60: the effect has an empty dependency list, it runs once after mount
EffectDue == ~mounted

\* line 40: the query string of GET /history
HistoryRequest(id) == [kind |-> "history", sessionId |-> id]
\* faulty variant: the file field is appended whether or not a file is selected
FormData_AlwaysFile(id, textInput, file) ==
  [sessionId |-> id, message |-> textInput, file |-> file]
\* lines 109-114: the form of POST /chat; the file field exists only when a
\* file is selected
FormData(id, textInput, file) ==
  IF Falsy(file) THEN [sessionId |-> id, message |-> textInput]
  ELSE [sessionId |-> id, message |-> textInput, file |-> file]
ChatRequest(form) == [kind |-> "chat", sessionId |-> form.sessionId]

\* lines 30-60: the mount effect up to the first await of fetchHistory
Mount ==
  /\ EffectDue
  /\ LET currentSessionId == BootstrapSession(storage, NewSessionId(storageWrites + 1)) IN
       /\ storage' = IF Falsy(storage) THEN currentSessionId ELSE storage
       /\ storageWrites' = IF Falsy(storage) THEN storageWrites + 1 ELSE storageWrites
       /\ sessionId' = currentSessionId
       /\ requests' = Append(requests, HistoryRequest(currentSessionId))
  /\ mounted' = TRUE
  /\ hist' = [hist EXCEPT !.pc = "fetch"]
  /\ notice' = IF Falsy(storage) THEN "none" ELSE "reused"
  /\ UNCHANGED <<supported, messages, input, isLoading, isListening,
                 selectedFile, filePreview, appStatus, inflight, recog, fileInput,
                 logged, lastBody, sendSnap>>

\* a page load discards the JavaScript state and keeps localStorage
Reload ==
  /\ mounted' = FALSE
  /\ messages' = <<>>
  /\ input' = <<>>
  /\ isLoading' = FALSE
  /\ isListening' = FALSE
  /\ selectedFile' = None
  /\ filePreview' = None
  /\ sessionId' = None
  /\ appStatus' = "loading"
  /\ hist' = HistIdle
  /\ inflight' = {}
  /\ recog' = "idle"
  /\ logged' = None
  /\ lastBody' = None
  /\ sendSnap' = NoSnap
  /\ requests' = <<>>
  /\ notice' = "none"
  /\ fileInput' = None
  /\ UNCHANGED <<storage, storageWrites, supported>>

\* ------------------------------------------------------------ fetchHistory
\* lines 43-47
\* faulty variant: the greeting is put before any history
HistoryLog_AlwaysGreets(history) == <<Greeting>> \o history
HistoryLog(history) == IF Len(history) > 0 THEN history ELSE <<Greeting>>

\* faulty variant: the catch block seeds the log with the greeting
HistoryCatch_Greets(message) ==
  /\ logged' = message
  /\ appStatus' = "error"
  /\ messages' = <<Greeting>>
  /\ hist' = [hist EXCEPT !.pc = "failed"]
  /\ notice' = "none"
  /\ UNCHANGED <<storage, storageWrites, fileInput, supported, mounted,
                 input, isLoading, isListening, selectedFile, filePreview, sessionId,
                 inflight, recog, requests, lastBody, sendSnap>>

\* lines 53-56: the catch block
HistoryCatch(message) ==
  /\ logged' = message
  /\ appStatus' = "error"
  /\ hist' = [hist EXCEPT !.pc = "failed"]
  /\ notice' = "none"
  /\ UNCHANGED <<storage, storageWrites, fileInput, supported, mounted, messages,
                 input, isLoading, isListening, selectedFile, filePreview, sessionId,
                 inflight, recog, requests, lastBody, sendSnap>>

\* line 40: fetch resolves with a response
HistoryResponse ==
  /\ hist.pc = "fetch"
  /\ \E ok \in BOOLEAN : hist' = [hist EXCEPT !.pc = "json", !.ok = ok]
  /\ notice' = "none"
  /\ UNCHANGED <<storage, storageWrites, fileInput, supported, mounted, react,
                 inflight, recog, requests, logged, lastBody, sendSnap>>

\* line 40: fetch rejects
HistoryNetworkError ==
  /\ hist.pc = "fetch"
  /\ HistoryCatch(NetworkFailure)

\* lines 41-48: a 2xx response whose body parses
HistoryLoaded ==
  /\ hist.pc = "json"
  /\ hist.ok
  /\ \E history \in Histories :
       /\ messages' = HistoryLog(history)
       /\ hist' = [hist EXCEPT !.pc = "loaded", !.body = history]
  /\ appStatus' = "ready"
  /\ notice' = "none"
  /\ UNCHANGED <<storage, storageWrites, fileInput, supported, mounted, input,
                 isLoading, isListening, selectedFile, filePreview, sessionId,
                 inflight, recog, requests, logged, lastBody, sendSnap>>

\* lines 42, 50: response.json() rejects
HistoryBodyUnparsable ==
  /\ hist.pc = "json"
  /\ HistoryCatch(JsonFailure)

\* lines 49-52: a non-2xx response whose body parses
HistoryNotOk ==
  /\ hist.pc = "json"
  /\ ~hist.ok
  /\ \E err \in ErrorBodies : HistoryCatch(OrElse(Field(err, "error"), HistoryNotOkText))

\* ---------------------------------------------------------- attachments
\* line 87: file.type.startsWith('image/')
\* faulty variant: the media type is not looked at
IsImage_Any(file) == TRUE
IsImage(file) == file[2] = "image"
\* line 89: URL.createObjectURL(file), a URL that designates the file
ObjectUrl(file) == <<"blob:">> \o file
\* variant of handleFileChange that accepts an image only into an empty slot
HandleFileChange_KeepsFirst ==
  /\ InputAreaRendered
  /\ ~ControlsDisabled
  /\ \E file \in Files \cup {Undefined} :
       IF file # Undefined /\ IsImage(file) /\ selectedFile = None
         THEN /\ selectedFile' = file
              /\ filePreview' = ObjectUrl(file)
              /\ fileInput' = file
              /\ notice' = "none"
         ELSE /\ notice' = IF file # Undefined /\ ~IsImage(file) THEN "alert" ELSE "none"
              /\ fileInput' = IF file # Undefined THEN file ELSE None
              /\ UNCHANGED <<selectedFile, filePreview>>
  /\ UNCHANGED <<storage, storageWrites, supported, mounted, messages,
                 input, isLoading, isListening, sessionId, appStatus, hist, inflight,
                 recog, requests, logged, lastBody, sendSnap>>

\* lines 85-93, reached through the paperclip button and the file dialog
HandleFileChange ==
  /\ InputAreaRendered
  /\ ~ControlsDisabled
  /\ \E file \in Files \cup {Undefined} :
       IF file # Undefined /\ IsImage(file)
         THEN /\ selectedFile' = file
              /\ filePreview' = ObjectUrl(file)
              /\ fileInput' = file
              /\ notice' = IF selectedFile # None THEN "replaced" ELSE "none"
         ELSE /\ notice' = IF file # Undefined THEN "alert" ELSE "none"
              /\ fileInput' = IF file # Undefined THEN file ELSE None
              /\ UNCHANGED <<selectedFile, filePreview>>
  /\ UNCHANGED <<storage, storageWrites, supported, mounted, messages,
                 input, isLoading, isListening, sessionId, appStatus, hist, inflight,
                 recog, requests, logged, lastBody, sendSnap>>

\* faulty variant: only the preview is reset
RemoveFile_KeepsFile ==
  /\ InputAreaRendered
  /\ PreviewRendered
  /\ filePreview' = None
  /\ fileInput' = None
  /\ notice' = "cleared"
  /\ UNCHANGED <<storage, storageWrites, supported, mounted, messages,
                 input, isLoading, isListening, selectedFile, sessionId, appStatus,
                 hist, inflight, recog, requests, logged, lastBody, sendSnap>>

\* lines 95-99, reached through the remove button of the preview
RemoveFile ==
  /\ InputAreaRendered
  /\ PreviewRendered
  /\ selectedFile' = None
  /\ filePreview' = None
  /\ fileInput' = None
  /\ notice' = "cleared"
  /\ UNCHANGED <<storage, storageWrites, supported, mounted, messages,
                 input, isLoading, isListening, sessionId, appStatus, hist, inflight,
                 recog, requests, logged, lastBody, sendSnap>>

\* line 192: onChange of the textarea
ChangeInput ==
  /\ InputAreaRendered
  /\ ~ControlsDisabled
  /\ \E value \in Inputs \ {input} : input' = value
  /\ notice' = "none"
  /\ UNCHANGED <<storage, storageWrites, fileInput, supported, mounted, messages,
                 isLoading, isListening, selectedFile, filePreview, sessionId,
                 appStatus, hist, inflight, recog, requests, logged,
                 lastBody, sendSnap>>

\* ------------------------------------------------------------ handleSend
\* line 103: the early return
\* faulty variant: no test for an empty message
SendBlocked_NoEmptyTest(textInput, file, id) == Falsy(id)
SendBlocked(textInput, file, id) == (textInput = <<>> /\ Falsy(file)) \/ Falsy(id)

\* lines 101-123: handleSend up to its first await
HandleSend ==
  /\ LET textInput == Trim(input)
         id == Len(requests) + 1
         formData == FormData(sessionId, textInput, selectedFile)
     IN IF SendBlocked(textInput, selectedFile, sessionId)
          THEN /\ notice' = "ignored"
               /\ UNCHANGED <<react, inflight, fileInput, requests, sendSnap>>
          ELSE /\ Len(messages) + 2 <= MaxLog
               /\ isLoading' = TRUE
               /\ messages' = Append(messages, UserMessage(textInput, filePreview))
               /\ requests' = Append(requests, ChatRequest(formData))
               /\ input' = <<>>
               /\ selectedFile' = None
               /\ filePreview' = None
               /\ fileInput' = None
               /\ inflight' = inflight \cup
                    {[id |-> id, pc |-> "fetch", ok |-> FALSE, body |-> formData]}
               /\ sendSnap' = [log |-> messages, busy |-> isLoading, text |-> textInput,
                                outcome |-> "pending"]
               /\ notice' = "none"
               /\ UNCHANGED <<isListening, sessionId, appStatus>>
  /\ UNCHANGED <<storage, storageWrites, supported, mounted, hist, recog,
                 logged, lastBody>>

\* line 193: onClick of the send button
ClickSend ==
  /\ InputAreaRendered
  /\ ~SendDisabled
  /\ HandleSend

\* lines 139-144 and 192: Enter without Shift in the textarea
PressEnter ==
  /\ InputAreaRendered
  /\ ~ControlsDisabled
  /\ HandleSend

\* faulty variant: no finally block
ChatCatch_NoRelease(f, message) ==
  /\ logged' = message
  /\ messages' = Append(messages, ErrorMessage(message))
  /\ inflight' = inflight \ {f}
  /\ sendSnap' = [sendSnap EXCEPT !.outcome = "failed"]
  /\ notice' = "none"
  /\ UNCHANGED <<storage, storageWrites, fileInput, supported, mounted, input,
                 isLoading, isListening, selectedFile, filePreview, sessionId,
                 appStatus, hist, recog, requests>>

\* faulty variant: a failed send puts the application in the error status
ChatCatch_Fatal(f, message) ==
  /\ logged' = message
  /\ messages' = Append(messages, ErrorMessage(message))
  /\ isLoading' = FALSE
  /\ appStatus' = "error"
  /\ inflight' = inflight \ {f}
  /\ sendSnap' = [sendSnap EXCEPT !.outcome = "failed"]
  /\ notice' = "none"
  /\ UNCHANGED <<storage, storageWrites, fileInput, supported, mounted, input,
                 isListening, selectedFile, filePreview, sessionId, hist, recog,
                 requests>>

\* faulty variant: the error is logged but no entry is appended for it
ChatCatch_Silent(f, message) ==
  /\ logged' = message
  /\ isLoading' = FALSE
  /\ inflight' = inflight \ {f}
  /\ sendSnap' = [sendSnap EXCEPT !.outcome = "failed"]
  /\ notice' = "none"
  /\ UNCHANGED <<storage, storageWrites, fileInput, supported, mounted, messages,
                 input, isListening, selectedFile, filePreview, sessionId, appStatus,
                 hist, recog, requests>>

\* lines 130-136: the catch block followed by the finally block
ChatCatch(f, message) ==
  /\ logged' = message
  /\ messages' = Append(messages, ErrorMessage(message))
  /\ isLoading' = FALSE
  /\ inflight' = inflight \ {f}
  /\ sendSnap' = [sendSnap EXCEPT !.outcome = "failed"]
  /\ notice' = "none"
  /\ UNCHANGED <<storage, storageWrites, fileInput, supported, mounted, input,
                 isListening, selectedFile, filePreview, sessionId, appStatus, hist,
                 recog, requests>>

\* line 120: fetch resolves with a response
ChatResponse ==
  \E f \in inflight :
    /\ f.pc = "fetch"
    /\ \E ok \in BOOLEAN :
         inflight' = (inflight \ {f}) \cup {[f EXCEPT !.pc = "json", !.ok = ok]}
    /\ notice' = "none"
    /\ UNCHANGED <<storage, storageWrites, fileInput, supported, mounted, react, hist,
                   recog, requests, logged, lastBody, sendSnap>>

\* line 120: fetch rejects
ChatNetworkError ==
  \E f \in inflight :
    /\ f.pc = "fetch"
    /\ ChatCatch(f, NetworkFailure)
    /\ UNCHANGED lastBody

\* line 125: response.json() rejects
ChatBodyUnparsable ==
  \E f \in inflight :
    /\ f.pc = "json"
    /\ ChatCatch(f, JsonFailure)
    /\ UNCHANGED lastBody

\* lines 125-126: a non-2xx response whose body parses
ChatNotOk ==
  \E f \in inflight :
    /\ f.pc = "json"
    /\ ~f.ok
    /\ \E data \in ErrorBodies :
         /\ lastBody' = data
         /\ ChatCatch(f, OrElse(Field(data, "error"), NotOkText))

\* lines 125-129 and 134-136: a 2xx response whose body parses
ChatReplied ==
  \E f \in inflight :
    /\ f.pc = "json"
    /\ f.ok
    /\ \E data \in OkBodies :
         /\ lastBody' = data
         /\ messages' = Append(messages, BotMessage(Field(data, "reply")))
    /\ isLoading' = FALSE
    /\ inflight' = inflight \ {f}
    /\ sendSnap' = [sendSnap EXCEPT !.outcome = "replied"]
    /\ notice' = "none"
    /\ UNCHANGED <<storage, storageWrites, fileInput, supported, mounted, input,
                   isListening, selectedFile, filePreview, sessionId, appStatus, hist,
                   recog, requests, logged>>

\* ------------------------------------------------------------------ voice
\* lines 74-83, reached through the microphone button.  recognition.start()
\* throws InvalidStateError while a session has not ended; recognition.stop()
\* lets the session deliver what it has and end later.
\* variant of handleVoiceListen without line 82 (the flag is never toggled)
HandleVoiceListen_NoFlag ==
  /\ InputAreaRendered
  /\ MicRendered
  /\ ~ControlsDisabled
  /\ IF ~supported
       THEN /\ notice' = "alert"
            /\ UNCHANGED <<input, isListening, recog>>
       ELSE IF isListening
         THEN /\ recog' = IF recog = "active" THEN "stopping" ELSE recog
              /\ notice' = "none"
              /\ UNCHANGED <<input, isListening>>
         ELSE /\ input' = <<>>
              /\ IF recog = "idle"
                   THEN /\ recog' = "active"
                        /\ notice' = "none"
                        /\ UNCHANGED isListening
                   ELSE /\ notice' = "threw"
                        /\ UNCHANGED <<recog, isListening>>
  /\ UNCHANGED <<storage, storageWrites, fileInput, supported, mounted, messages,
                 isLoading, selectedFile, filePreview, sessionId, appStatus, hist,
                 inflight, requests, logged, lastBody, sendSnap>>

HandleVoiceListen ==
  /\ InputAreaRendered
  /\ MicRendered
  /\ ~ControlsDisabled
  /\ IF ~supported
       THEN /\ notice' = "alert"
            /\ UNCHANGED <<input, isListening, recog>>
       ELSE IF isListening
         THEN /\ recog' = IF recog = "active" THEN "stopping" ELSE recog
              /\ isListening' = FALSE
              /\ notice' = "none"
              /\ UNCHANGED input
         ELSE /\ input' = <<>>
              /\ IF recog = "idle"
                   THEN /\ recog' = "active"
                        /\ isListening' = TRUE
                        /\ notice' = "none"
                   ELSE /\ notice' = "threw"
                        /\ UNCHANGED <<recog, isListening>>
  /\ UNCHANGED <<storage, storageWrites, fileInput, supported, mounted, messages,
                 isLoading, selectedFile, filePreview, sessionId, appStatus, hist,
                 inflight, requests, logged, lastBody, sendSnap>>

\* line 64: recognition.onresult (one final result, continuous is false)
RecognitionResult ==
  /\ recog \in {"active", "stopping"}
  /\ \E transcript \in Transcripts : input' = transcript
  /\ recog' = "ending"
  /\ notice' = "none"
  /\ UNCHANGED <<storage, storageWrites, fileInput, supported, mounted, messages,
                 isLoading, isListening, selectedFile, filePreview, sessionId,
                 appStatus, hist, inflight, requests, logged,
                 lastBody, sendSnap>>

\* line 65: recognition.onerror writes event.error to the console, nothing else
RecognitionError ==
  /\ recog \in {"active", "stopping"}
  /\ recog' = "ending"
  /\ \E error \in RecognitionErrors : logged' = error
  /\ notice' = "none"
  /\ UNCHANGED <<storage, storageWrites, fileInput, supported, mounted, react, hist,
                 inflight, requests, lastBody, sendSnap>>

\* line 66: recognition.onend
RecognitionEnd ==
  /\ recog # "idle"
  /\ recog' = "idle"
  /\ isListening' = FALSE
  /\ notice' = "none"
  /\ UNCHANGED <<storage, storageWrites, fileInput, supported, mounted, messages,
                 input, isLoading, selectedFile, filePreview, sessionId, appStatus,
                 hist, inflight, requests, logged, lastBody,
                 sendSnap>>

Next ==
  \/ Mount
  \/ Reload
  \/ HistoryResponse
  \/ HistoryNetworkError
  \/ HistoryLoaded
  \/ HistoryBodyUnparsable
  \/ HistoryNotOk
  \/ HandleFileChange
  \/ RemoveFile
  \/ ChangeInput
  \/ ClickSend
  \/ PressEnter
  \/ ChatResponse
  \/ ChatNetworkError
  \/ ChatBodyUnparsable
  \/ ChatNotOk
  \/ ChatReplied
  \/ HandleVoiceListen
  \/ RecognitionResult
  \/ RecognitionError
  \/ RecognitionEnd

Spec == Init /\ [][Next]_vars

TypeOK ==
  /\ storage \in {None, NewSessionId(storageWrites)}
  /\ appStatus \in {"loading", "ready", "error"}
  /\ isLoading \in BOOLEAN
  /\ isListening \in BOOLEAN
  /\ input \in Inputs \cup Transcripts
  /\ hist.pc \in {"none", "fetch", "json", "loaded", "failed"}
  /\ recog \in {"idle", "active", "stopping", "ending"}
  /\ notice \in {"none", "alert", "ignored", "threw", "cleared", "replaced", "reused"}
  /\ fileInput \in Files \cup {None}
  /\ Len(messages) <= MaxLog

\* a step that loads the page again after its mount effects have run (a page
\* load before that leaves the fresh state as it is)
PageReloaded == mounted /\ ~mounted'

\* -------------------------------------------------------------- properties
\* part occurs in text as a run of consecutive pieces
Contains(text, part) ==
  \E i \in 0..(Len(text) - Len(part)) : SubSeq(text, i + 1, i + Len(part)) = part
\* the log as it was when the last send started
SentFrom == Len(sendSnap.log)
GrewByTwo ==
  /\ Len(messages) = SentFrom + 2
  /\ SubSeq(messages, 1, SentFrom) = sendSnap.log
\* a step in which handleSend issues a request or appends its user entry
SendTakesEffect ==
  \/ /\ Len(requests') > Len(requests)
     /\ requests'[Len(requests')].kind = "chat"
  \/ /\ sendSnap' # sendSnap
     /\ sendSnap'.outcome = "pending"
\* a step taken by handleSend
SendInvoked == notice' = "ignored" \/ SendTakesEffect

\* C1: in every reachable state at most one send (POST /chat request whose
\* handleSend call has not finished) is in flight.
C1_OneSendInFlight == Cardinality(inflight) <= 1
C1_Witness == inflight # {} /\ Len(ChatRequests) = 2

\* C2: busy is never left true once the request has completed: whenever
\* isLoading is true a send is still waiting for its response, whichever way
\* earlier sends ended (reply, error response, network error, unparsable body).
C2_BusyReleased == isLoading => inflight # {}
C2_Witness == sendSnap.outcome = "failed" /\ logged = JsonFailure /\ ~isLoading

\* C3: once a send of non-empty text has been answered, the log is the log the
\* send started from followed by exactly two entries, the user entry with the
\* sent text and then the bot entry with the reply payload, and busy was false
\* when the send started and is false again.
C3_SuccessfulSend ==
  (sendSnap.outcome = "replied" /\ sendSnap.text # <<>>) =>
    /\ GrewByTwo
    /\ messages[SentFrom + 1].sender = "user"
    /\ messages[SentFrom + 1].text = sendSnap.text
    /\ messages[SentFrom + 2] = [sender |-> "bot", text |-> Field(lastBody, "reply")]
    /\ Field(lastBody, "reply") \in Replies
    /\ ~sendSnap.busy
    /\ ~isLoading
C3_Witness ==
  /\ sendSnap.outcome = "replied"
  /\ sendSnap.text = <<"a">>
  /\ sendSnap.log = HistoryEntries

\* C4: once a send has failed, the log is the log the send started from
\* followed by exactly one user entry and then exactly one bot entry whose text
\* contains the failure reason (the message of the caught error), and busy is
\* false again.
\* The reason is read in the step that catches the error, where the console
\* holds it; a later recognition error may overwrite the console (line 65).
C4_FailedSend ==
  [][/\ sendSnap'.outcome = "failed" =>
          /\ GrewByTwo'
          /\ messages'[SentFrom' + 1].sender = "user"
          /\ messages'[SentFrom' + 1].text = sendSnap'.text
          /\ messages'[SentFrom' + 2].sender = "bot"
          /\ ~isLoading'
     /\ (sendSnap.outcome = "pending" /\ sendSnap'.outcome = "failed") =>
          /\ logged' # <<>>
          /\ Contains(messages'[SentFrom' + 2].text, logged')]_vars
C4_Witness == sendSnap.outcome = "failed" /\ logged = NetworkFailure

\* C5: a send invoked with empty text and no pending attachment changes neither
\* the log, the busy flag, the input text nor the pending attachment, and
\* issues no request.
C5_EmptySendIsNoOp ==
  [][(input = <<>> /\ selectedFile = None /\ SendInvoked) =>
       UNCHANGED <<messages, isLoading, input, selectedFile, filePreview,
                   requests, inflight>>]_vars
C5_Witness == notice = "ignored" /\ input = <<>> /\ selectedFile = None

\* C6: after a successful history load AppStatus is ready and the log starts
\* with (and, until a send is made, is exactly) the single bot greeting when
\* the returned sequence is empty, and the returned sequence itself otherwise.
C6_HistoryLoaded ==
  hist.pc = "loaded" =>
    LET expected == IF hist.body = <<>>
                      THEN <<[sender |-> "bot", text |-> GreetingText]>>
                      ELSE hist.body
    IN /\ appStatus = "ready"
       /\ Len(messages) >= Len(expected)
       /\ SubSeq(messages, 1, Len(expected)) = expected
       /\ sendSnap = NoSnap => messages = expected
       /\ (hist.body = <<>> /\ sendSnap = NoSnap) => Len(messages) = 1
C6_Witness == hist.pc = "loaded" /\ hist.body = HistoryEntries /\ sendSnap = NoSnap

\* C7: after a failed history load (transport error or non-2xx response)
\* AppStatus is error and the log is empty, for the rest of the activation.
C7_HistoryFailed ==
  hist.pc = "failed" => appStatus = "error" /\ messages = <<>>
C7_Witness == hist.pc = "failed" /\ ~hist.ok /\ logged = <<"quota exceeded">>

\* C8: within one activation AppStatus only moves from loading to ready or
\* from loading to error; ready and error are never left.
C8_StatusTransitions ==
  [][~PageReloaded =>
       \/ appStatus' = appStatus
       \/ appStatus = "loading" /\ appStatus' \in {"ready", "error"}]_vars
C8_Witness == appStatus = "ready" /\ sendSnap.outcome = "failed" /\ recog = "ending"

\* C9: a POST /chat request is issued and a user entry is appended only in
\* steps taken while AppStatus is ready.
C9_SendOnlyWhenReady == [][SendTakesEffect => appStatus = "ready"]_vars
C9_Witness == appStatus = "ready" /\ Len(ChatRequests) > 0 /\ inflight # {}

\* C10: the session id is generated and stored at most once: only the first
\* id generated is ever stored, and every activation uses it in its history
\* request and in all its chat requests.
C10_SessionStable ==
  /\ storageWrites <= 1
  /\ storage \in {None, NewSessionId(1)}
  /\ mounted => sessionId = storage /\ storage = NewSessionId(1)
  /\ \A i \in 1..Len(requests) : requests[i].sessionId = NewSessionId(1)
C10_Witness ==
  /\ notice = "reused"
  /\ storageWrites = 1
  /\ sessionId = NewSessionId(1)
  /\ Len(HistoryRequests) = 1

\* a is an initial part of b
IsPrefix(a, b) == Len(a) <= Len(b) /\ SubSeq(b, 1, Len(a)) = a

\* C11: the log is append-only: in every step of an activation the log before
\* the step is an initial part of the log after it, so no entry is removed,
\* changed, reordered or deduplicated, also when a late reply or error arrives.
C11_AppendOnly == [][~PageReloaded => IsPrefix(messages, messages')]_vars
C11_Witness == Len(messages) = 5 /\ sendSnap.outcome = "failed"

\* C12: selecting a file that is not an image leaves the selected file and its
\* preview exactly as they were (empty or holding an image) and shows a
\* notice; the slot never holds a file that is not an image.
C12_NonImageRejected ==
  [][/\ notice' = "alert" => UNCHANGED <<selectedFile, filePreview>>
     /\ selectedFile' \notin OtherFiles
     /\ (selectedFile' # selectedFile /\ selectedFile' # None)
          => notice' \in {"none", "replaced"}]_vars
C12_Witness == notice = "alert" /\ selectedFile \in ImageFiles

\* the form of the request a send step issues, given the text it must carry
SendCarries(text) ==
  /\ inflight' \ inflight # {}
  /\ \A f \in inflight' \ inflight :
       /\ f.body.sessionId = sessionId
       /\ f.body.message = text
       /\ IF selectedFile = None
            THEN "file" \notin DOMAIN f.body
            ELSE "file" \in DOMAIN f.body /\ f.body.file = selectedFile
  /\ requests'[Len(requests')].sessionId = sessionId
  /\ input' = <<>>
  /\ selectedFile' = None
  /\ filePreview' = None

\* C13 as stated: the request carries the session id, the input text as it was
\* when send was invoked and the attachment then pending (no file field when
\* none); right after the step the input and the pending attachment are empty.
C13_CarriesInputText == [][SendTakesEffect => SendCarries(input)]_vars

\* C13 as amended: the same, with the text carried being the input text
\* stripped of leading and trailing whitespace.
C13_CarriesTrimmedText == [][SendTakesEffect => SendCarries(Trim(input))]_vars
C13_Witness ==
  \E f \in inflight :
    /\ f.pc = "fetch"
    /\ "file" \in DOMAIN f.body
    /\ f.body.message = <<"a">>
    /\ input = <<>>
    /\ selectedFile = None

\* a step in which the last send ends with the given outcome
SendEnds(outcome) == sendSnap.outcome = "pending" /\ sendSnap'.outcome = outcome
\* a failed send has grown the log by failedBy entries and an answered one by
\* one or two; once the history is loaded no other step of the activation
\* changes the length of the log
LogGrowth(failedBy) ==
  /\ SendEnds("failed") => Len(messages') = Len(sendSnap.log) + failedBy
  /\ SendEnds("replied") => Len(messages') - Len(sendSnap.log) \in {1, 2}
  /\ (hist.pc = "loaded" /\ ~PageReloaded /\ Len(messages') # Len(messages))
       => SendTakesEffect \/ SendEnds("failed") \/ SendEnds("replied")

\* C14 as stated: every failed send grows the log by exactly one entry, every
\* successful send by one or two, and no other event after initialization
\* changes the length of the log.
C14_FailedGrowsByOne == [][LogGrowth(1)]_vars

\* C14 as amended: every failed send grows the log by exactly two entries (the
\* user entry and the error entry), every successful send by one or two, and
\* no other event after initialization changes the length of the log.
C14_FailedGrowsByTwo == [][LogGrowth(2)]_vars
C14_Witness ==
  /\ sendSnap.outcome = "failed"
  /\ sendSnap.log = <<Greeting>>
  /\ Len(messages) = 3

\* C15: a failed send leaves AppStatus ready and busy false, with the input
\* area rendered and enabled and the session id known, so that a further send
\* can be made; this holds after any number of failed sends.
C15_FailedSendRecovers ==
  sendSnap.outcome = "failed" =>
    /\ appStatus = "ready"
    /\ ~isLoading
    /\ inflight = {}
    /\ InputAreaRendered
    /\ ~ControlsDisabled
    /\ ~SendBlocked(<<"a">>, None, sessionId)
C15_Witness ==
  /\ sendSnap.outcome = "replied"
  /\ Len(sendSnap.log) = 3
  /\ sendSnap.log[3] = ErrorMessage(NetworkFailure)

\* C19: whenever busy is true a send is in flight and the last entry of the
\* log is the user entry of that send, with the text its request carries.
C19_LastEntryIsPendingUserEntry ==
  isLoading =>
    /\ inflight # {}
    /\ messages # <<>>
    /\ messages[Len(messages)].sender = "user"
    /\ \A f \in inflight : messages[Len(messages)].text = f.body.message
    /\ Len(messages) = SentFrom + 1
C19_Witness ==
  /\ isLoading
  /\ \E f \in inflight : f.pc = "json" /\ ~f.ok
  /\ messages[Len(messages)].image # None

\* C20: the selected file and its preview are both present or both absent.
C20_FileAndPreviewTogether == (selectedFile = None) <=> (filePreview = None)
C20_Witness == selectedFile \in ImageFiles /\ filePreview # None /\ Len(messages) = 3

\* C16: the attachment slot is last-write-wins: whenever the file input holds an
\* image, the slot holds that image and the preview made from it, whatever was
\* pending before.
C16_LastImageWins ==
  fileInput \in ImageFiles => selectedFile = fileInput /\ filePreview = ObjectUrl(fileInput)
C16_Witness ==
  notice = "replaced" /\ fileInput \in ImageFiles /\ selectedFile = fileInput

\* C17: removeFile always ends with the file, the preview and the file input
\* empty, whether the slot held an image (the remove button) or was already
\* empty (the call inside a send), and the remove button changes neither the
\* log, nor the busy flag, nor the status.
C17_ClearIsIdempotent ==
  [][/\ (notice' = "cleared" \/ SendTakesEffect)
          => selectedFile' = None /\ filePreview' = None /\ fileInput' = None
     /\ notice' = "cleared" => UNCHANGED <<messages, isLoading, appStatus>>]_vars
C17_Witness ==
  /\ notice = "cleared" /\ selectedFile = None /\ filePreview = None /\ fileInput = None
  /\ Len(messages) = 3 /\ messages[2].image = None

\* C18: there is at most one recognition session: a session starts only from the
\* idle recognition object with the flag off, a running session always has the
\* flag on, turning the flag off while it runs stops or ends it, and a start
\* refused by the recognition object leaves the existing session as it is.
C18_OneVoiceSession ==
  [][/\ recog' = "active" => isListening'
     /\ (recog' = "active" /\ recog # "active") => recog = "idle" /\ ~isListening
     /\ (recog = "active" /\ ~isListening') => recog' \in {"stopping", "idle"}
     /\ notice' = "threw" => recog # "idle" /\ UNCHANGED <<recog, isListening>>]_vars
C18_Witness == recog = "stopping" /\ ~isListening /\ notice = "threw"
====
